---- MODULE Spec2Model ----
(***************************************************************************)
(* Model of src/src/components/TemplateGenerator.tsx: the React component  *)
(* that normalises three kinds of dimension input to inches, renders a     *)
(* ruled grid on a canvas, overlays a logo when the logo image completes,  *)
(* and exports the canvas (download, single-page print, tiled print).      *)
(*                                                                         *)
(* Numbers are exact rationals [n, d] in lowest terms with d > 0; the      *)
(* records with d = 0 are NaN and the two infinities.  Strings are         *)
(* sequences of one-character strings so that parseFloat, Number::toString *)
(* and toFixed are computed digit by digit.  Every value the model reaches *)
(* has a short exact decimal expansion, for which IEEE doubles and         *)
(* rationals agree.                                                        *)
(***************************************************************************)
EXTENDS Integers, Sequences, FiniteSets, TLC

(***************************************************************************)
(* Rational arithmetic                                                     *)
(***************************************************************************)
Abs(x) == IF x < 0 THEN -x ELSE x

RECURSIVE GCD(_, _)
GCD(a, b) == IF b = 0 THEN a ELSE GCD(b, a % b)

\* n / d in lowest terms; a zero divisor gives Infinity [1, 0], -Infinity
\* [-1, 0] or NaN [0, 0], as the division of doubles does.
Rat(n, d) ==
    IF d = 0 THEN [n |-> IF n > 0 THEN 1 ELSE IF n < 0 THEN -1 ELSE 0, d |-> 0]
    ELSE IF d = 1 THEN [n |-> n, d |-> 1]
    ELSE LET g == GCD(Abs(n), Abs(d))
             s == IF d < 0 THEN -1 ELSE 1
         IN  [n |-> (s * n) \div g, d |-> (s * d) \div g]

NaN == [n |-> 0, d |-> 0]
IsNaN(x) == x.d = 0 /\ x.n = 0
IsFinite(x) == x.d # 0
Zero == Rat(0, 1)
One == Rat(1, 1)
FromInt(i) == Rat(i, 1)

RAdd(x, y) == Rat(x.n * y.d + y.n * x.d, x.d * y.d)
RMul(x, y) == Rat(x.n * y.n, x.d * y.d)
RDiv(x, y) == Rat(x.n * y.d, x.d * y.n)
RLess(x, y) == x.n * y.d < y.n * x.d
RLeq(x, y) == x.n * y.d <= y.n * x.d
RFloor(x) == x.n \div x.d
RCeil(x) == -((-x.n) \div x.d)
RTrunc(x) == IF x.n < 0 THEN -((-x.n) \div x.d) ELSE x.n \div x.d

(***************************************************************************)
(* Strings as character sequences                                          *)
(***************************************************************************)
DigitChars == <<"0", "1", "2", "3", "4", "5", "6", "7", "8", "9">>
IsDigit(c) == \E i \in 1..10 : DigitChars[i] = c
DigitVal(c) == (CHOOSE i \in 1..10 : DigitChars[i] = c) - 1

RECURSIVE NatToStr(_)
NatToStr(k) ==
    IF k < 10 THEN <<DigitChars[k + 1]>>
    ELSE Append(NatToStr(k \div 10), DigitChars[(k % 10) + 1])

RECURSIVE Pow10(_)
Pow10(k) == IF k = 0 THEN 1 ELSE 10 * Pow10(k - 1)

\* Length of the longest prefix of s made of digits.
RECURSIVE DigitRun(_)
DigitRun(s) ==
    IF s = <<>> \/ ~IsDigit(Head(s)) THEN 0 ELSE 1 + DigitRun(Tail(s))

RECURSIVE DigitsToNat(_)
DigitsToNat(s) ==
    IF s = <<>> THEN 0
    ELSE 10 * DigitsToNat(SubSeq(s, 1, Len(s) - 1)) + DigitVal(s[Len(s)])

\* parseFloat: optional sign, digits, optional "." and digits; the longest
\* such prefix is converted and NaN is returned when it holds no digit.
ParseFloat(s) ==
    LET signed == s # <<>> /\ Head(s) \in {"-", "+"}
        body == IF signed THEN Tail(s) ELSE s
        ni == DigitRun(body)
        afterInt == SubSeq(body, ni + 1, Len(body))
        hasDot == afterInt # <<>> /\ Head(afterInt) = "."
        nf == IF hasDot THEN DigitRun(Tail(afterInt)) ELSE 0
        ip == DigitsToNat(SubSeq(body, 1, ni))
        fp == IF nf = 0 THEN 0 ELSE DigitsToNat(SubSeq(Tail(afterInt), 1, nf))
        mag == Rat(ip * Pow10(nf) + fp, Pow10(nf))
    IN  IF ni + nf = 0 THEN NaN
        ELSE IF signed /\ Head(s) = "-" THEN Rat(-mag.n, mag.d) ELSE mag

\* JavaScript's  x || dflt  for a number x: NaN and 0 are falsy.
OrElse(x, dflt) == IF IsNaN(x) \/ x.n = 0 THEN dflt ELSE x

\* Fraction digits of num/den (0 <= num < den), at most k of them.
RECURSIVE FracDigits(_, _, _)
FracDigits(num, den, k) ==
    IF num = 0 \/ k = 0 THEN <<>>
    ELSE <<DigitChars[((num * 10) \div den) + 1]>>
         \o FracDigits((num * 10) % den, den, k - 1)

\* Number::toString (template literal `${x}`): the shortest decimal that
\* reads back as x; for a short exact decimal that is the expansion itself.
NumberToString(x) ==
    LET a == Abs(x.n)
        ip == a \div x.d
        fr == FracDigits(a % x.d, x.d, 17)
    IN  (IF x.n < 0 THEN <<"-">> ELSE <<>>)
        \o NatToStr(ip)
        \o (IF fr = <<>> THEN <<>> ELSE <<".">> \o fr)

\* Number.prototype.toFixed(2): the nearest multiple of 1/100, the larger
\* one on a tie, printed with exactly two fraction digits.
ToFixed2(x) ==
    LET a == Abs(x.n)
        h == (2 * 100 * a + x.d) \div (2 * x.d)
        c == h % 100
    IN  (IF x.n < 0 /\ h > 0 THEN <<"-">> ELSE <<>>)
        \o NatToStr(h \div 100)
        \o <<".", DigitChars[(c \div 10) + 1], DigitChars[(c % 10) + 1]>>

(***************************************************************************)
(* Bounds and input alphabets                                              *)
(***************************************************************************)
\* User events (field edits, mode switches, export clicks) in one session.
MaxEvents == 3
\* Page canvases that may fail to give a 2d context in one tiled print.
MaxFailedTiles == 1

Str5 == <<"5">>
Str5Dot0 == <<"5", ".", "0">>
Str3 == <<"3">>
Str8 == <<"8">>
Str10 == <<"1", "0">>
Str13 == <<"1", "3">>
StrNeg2 == <<"-", "2">>
Str254 == <<"2", "5", "4">>
Str127 == <<"1", "2", "7">>
Empty == <<>>

InputModes == {"decimal", "fraction", "metric"}
DecimalWidths == {Empty, Str5, Str5Dot0, Str10, Str13, StrNeg2}
DecimalHeights == {Empty, Str3, Str8, Str10}
Wholes == {Empty, <<"2">>}
Numerators == {Empty, Str3}
\* <option> values of the denominator <select> (two of 16, 8, 4, 2).
Denominators == {<<"1", "6">>, <<"4">>}
MetricWidths == {Empty, Str254}
MetricHeights == {Empty, Str127}

Null == [null |-> TRUE]

(***************************************************************************)
(* State                                                                   *)
(***************************************************************************)
VARIABLES
    dimensions,     \* useState<Dimensions>: [width, height] in inches
    inputMode,      \* useState<InputMode>
    widthInput,     \* useState<FractionalInput>
    heightInput,    \* useState<FractionalInput>
    decimalWidth,   \* useState('')
    decimalHeight,
    metricWidth,
    metricHeight,
    canvas,         \* the element behind canvasRef.current, or Null
    canvasCount,    \* canvas elements mounted so far (element identity)
    inputsDirty,    \* the effect on the raw inputs is pending
    dimsDirty,      \* the effect on [dimensions] is pending
    lastEdit,       \* which state the last user event set
    ctxOk,          \* the latest generateTemplate got its 2d context
    renderCount,    \* grid renders performed
    pendingLogos,   \* logo images loading: [render, canvas]
    completions,    \* logo completions (load or error) so far
    output,         \* what the last export handler produced
    events          \* user events so far

inputVars == <<inputMode, widthInput, heightInput, decimalWidth, decimalHeight,
               metricWidth, metricHeight>>
renderVars == <<canvas, canvasCount, ctxOk, renderCount, pendingLogos, completions>>
vars == <<dimensions, inputVars, renderVars, inputsDirty, dimsDirty, lastEdit,
          output, events>>

(***************************************************************************)
(* Input Normalizer                                                        *)
(***************************************************************************)
Mm == Rat(254, 10)

\* Mutant of convertFractionToDecimal: the denominator defaulted like the
\* other two fields (`|| 0`).
convertFractionNoGuard(input) ==
    LET whole == OrElse(ParseFloat(input.whole), Zero)
        num == OrElse(ParseFloat(input.numerator), Zero)
        den == OrElse(ParseFloat(input.denominator), Zero)
    IN  RAdd(whole, RDiv(num, den))

convertFractionToDecimal(input) ==
    LET whole == OrElse(ParseFloat(input.whole), Zero)
        num == OrElse(ParseFloat(input.numerator), Zero)
        den == OrElse(ParseFloat(input.denominator), One)
    IN  RAdd(whole, RDiv(num, den))

\* Mutant of updateDimensions: millimetres stored without the division.
updateDimensionsUnconverted(mode, wIn, hIn, dW, dH, mW, mH) ==
    CASE mode = "decimal" ->
            [width |-> OrElse(ParseFloat(dW), Zero),
             height |-> OrElse(ParseFloat(dH), Zero)]
      [] mode = "fraction" ->
            [width |-> convertFractionToDecimal(wIn),
             height |-> convertFractionToDecimal(hIn)]
      [] mode = "metric" ->
            [width |-> OrElse(ParseFloat(mW), Zero),
             height |-> OrElse(ParseFloat(mH), Zero)]

\* Mutant of updateDimensions: an empty metric field falls back to the
\* decimal field of the same axis.
updateDimensionsFallback(mode, wIn, hIn, dW, dH, mW, mH) ==
    CASE mode = "decimal" ->
            [width |-> OrElse(ParseFloat(dW), Zero),
             height |-> OrElse(ParseFloat(dH), Zero)]
      [] mode = "fraction" ->
            [width |-> convertFractionToDecimal(wIn),
             height |-> convertFractionToDecimal(hIn)]
      [] mode = "metric" ->
            [width |-> RDiv(OrElse(ParseFloat(mW), OrElse(ParseFloat(dW), Zero)), Mm),
             height |-> RDiv(OrElse(ParseFloat(mH), OrElse(ParseFloat(dH), Zero)), Mm)]

\* The {width, height} that updateDimensions passes to setDimensions.
updateDimensions(mode, wIn, hIn, dW, dH, mW, mH) ==
    CASE mode = "decimal" ->
            [width |-> OrElse(ParseFloat(dW), Zero),
             height |-> OrElse(ParseFloat(dH), Zero)]
      [] mode = "fraction" ->
            [width |-> convertFractionToDecimal(wIn),
             height |-> convertFractionToDecimal(hIn)]
      [] mode = "metric" ->
            [width |-> RDiv(OrElse(ParseFloat(mW), Zero), Mm),
             height |-> RDiv(OrElse(ParseFloat(mH), Zero), Mm)]

Positive(d) == RLess(Zero, d.width) /\ RLess(Zero, d.height)

\* Mutant of CanvasMounted: the <canvas> rendered unconditionally.
CanvasAlwaysMounted(d) == TRUE

\* JSX: the <canvas> is part of the tree only for positive dimensions.
CanvasMounted(d) == Positive(d)
\* JSX: the three action buttons are rendered only for positive dimensions.
ButtonsVisible(d) == Positive(d)

\* A canvas element as the browser creates it: 300 x 150, blank.
NewCanvas(id) ==
    [id |-> id, width |-> 300, height |-> 150, grid |-> 0,
     drawn |-> Null, border |-> Null,
     gridLines |-> [vertical |-> <<>>, horizontal |-> <<>>],
     scales |-> [top |-> <<>>, left |-> <<>>],
     labels |-> Null, overlays |-> {}]

\* React's commit for a dimensions value: mount, keep or unmount the canvas.
Commit(d, cv, count) ==
    IF ~CanvasMounted(d) THEN Null
    ELSE IF cv = Null THEN NewCanvas(count + 1) ELSE cv

Idle == ~inputsDirty /\ ~dimsDirty

(***************************************************************************)
(* Initial state: the component is constructed, its effects not yet run.   *)
(***************************************************************************)
Init ==
    /\ dimensions = [width |-> Zero, height |-> Zero]
    /\ inputMode = "decimal"
    /\ widthInput = [whole |-> Empty, numerator |-> Empty, denominator |-> <<"1", "6">>]
    /\ heightInput = [whole |-> Empty, numerator |-> Empty, denominator |-> <<"1", "6">>]
    /\ decimalWidth = Empty
    /\ decimalHeight = Empty
    /\ metricWidth = Empty
    /\ metricHeight = Empty
    /\ canvas = Null
    /\ canvasCount = 0
    /\ inputsDirty = TRUE
    /\ dimsDirty = TRUE
    /\ lastEdit = "mount"
    /\ ctxOk = TRUE
    /\ renderCount = 0
    /\ pendingLogos = {}
    /\ completions = 0
    /\ output = [action |-> "none", produced |-> FALSE]
    /\ events = 0

(***************************************************************************)
(* User events on the form.  React runs the pending effects before it      *)
(* handles the next discrete event, so a handler starts from Idle.  A      *)
(* handler that sets the value already held changes nothing.               *)
(***************************************************************************)
UserEvent(field) ==
    /\ Idle
    /\ events < MaxEvents
    /\ events' = events + 1
    /\ inputsDirty' = TRUE
    /\ lastEdit' = field
    /\ UNCHANGED <<dimensions, dimsDirty, renderVars, output>>

SetInputMode(m) ==
    /\ m # inputMode
    /\ inputMode' = m
    /\ UserEvent("inputMode")
    /\ UNCHANGED <<widthInput, heightInput, decimalWidth, decimalHeight,
                   metricWidth, metricHeight>>

SetDecimalWidth(v) ==
    /\ v # decimalWidth
    /\ decimalWidth' = v
    /\ UserEvent("decimalWidth")
    /\ UNCHANGED <<inputMode, widthInput, heightInput, decimalHeight,
                   metricWidth, metricHeight>>

SetDecimalHeight(v) ==
    /\ v # decimalHeight
    /\ decimalHeight' = v
    /\ UserEvent("decimalHeight")
    /\ UNCHANGED <<inputMode, widthInput, heightInput, decimalWidth,
                   metricWidth, metricHeight>>

SetMetricWidth(v) ==
    /\ v # metricWidth
    /\ metricWidth' = v
    /\ UserEvent("metricWidth")
    /\ UNCHANGED <<inputMode, widthInput, heightInput, decimalWidth,
                   decimalHeight, metricHeight>>

SetMetricHeight(v) ==
    /\ v # metricHeight
    /\ metricHeight' = v
    /\ UserEvent("metricHeight")
    /\ UNCHANGED <<inputMode, widthInput, heightInput, decimalWidth,
                   decimalHeight, metricWidth>>

\* setWidthInput({...widthInput, [part]: v})
SetWidthInput(part, v) ==
    /\ v # widthInput[part]
    /\ widthInput' = [widthInput EXCEPT ![part] = v]
    /\ UserEvent("widthInput")
    /\ UNCHANGED <<inputMode, heightInput, decimalWidth, decimalHeight,
                   metricWidth, metricHeight>>

SetHeightInput(part, v) ==
    /\ v # heightInput[part]
    /\ heightInput' = [heightInput EXCEPT ![part] = v]
    /\ UserEvent("heightInput")
    /\ UNCHANGED <<inputMode, widthInput, decimalWidth, decimalHeight,
                   metricWidth, metricHeight>>

PartValues(part) ==
    CASE part = "whole" -> Wholes
      [] part = "numerator" -> Numerators
      [] part = "denominator" -> Denominators

(***************************************************************************)
(* Effect on the raw inputs: updateDimensions, setDimensions and the       *)
(* commit of the re-render that setDimensions causes.                      *)
(***************************************************************************)
\* Mutant of UpdateDimensionsEffect: the render effect is scheduled only when
\* the numbers stored differ from those held (as if setDimensions were given
\* the object it already holds).
UpdateDimensionsIfChanged ==
    /\ inputsDirty
    /\ LET d == updateDimensions(inputMode, widthInput, heightInput, decimalWidth,
                                 decimalHeight, metricWidth, metricHeight)
           cv == Commit(d, canvas, canvasCount)
       IN  /\ dimensions' = d
           /\ canvas' = cv
           /\ canvasCount' = IF cv # Null /\ canvas = Null
                             THEN canvasCount + 1 ELSE canvasCount
           /\ dimsDirty' = (dimsDirty \/ d # dimensions)
    /\ inputsDirty' = FALSE
    /\ UNCHANGED <<inputVars, lastEdit, ctxOk, renderCount, pendingLogos,
                   completions, output, events>>

UpdateDimensionsEffect ==
    /\ inputsDirty
    /\ LET d == updateDimensions(inputMode, widthInput, heightInput, decimalWidth,
                                 decimalHeight, metricWidth, metricHeight)
           cv == Commit(d, canvas, canvasCount)
       IN  /\ dimensions' = d
           /\ canvas' = cv
           /\ canvasCount' = IF cv # Null /\ canvas = Null
                             THEN canvasCount + 1 ELSE canvasCount
    /\ inputsDirty' = FALSE
    /\ dimsDirty' = TRUE
    /\ UNCHANGED <<inputVars, lastEdit, ctxOk, renderCount, pendingLogos,
                   completions, output, events>>

(***************************************************************************)
(* Grid Renderer                                                           *)
(***************************************************************************)
dpi == 72
margin == 72

\* Mutant of SurfaceWidth: the margin added on one side only.
SurfaceWidthOneMargin(d) == RTrunc(RAdd(RMul(d.width, FromInt(dpi)), FromInt(margin)))

\* canvas.width / canvas.height are WebIDL unsigned long attributes: the
\* number assigned is truncated to an integer.
SurfaceWidth(d) == RTrunc(RAdd(RMul(d.width, FromInt(dpi)), FromInt(margin * 2)))
SurfaceHeight(d) == RTrunc(RAdd(RMul(d.height, FromInt(dpi)), FromInt(margin * 2)))

InchMark == <<"\"">>

\* strokeRect(margin, margin, pixelWidth, pixelHeight)
Border(d) ==
    [x |-> margin, y |-> margin,
     w |-> RMul(d.width, FromInt(dpi)), h |-> RMul(d.height, FromInt(dpi))]

\* for (let i = ...; i < extent; i++): one line per i at margin + i * dpi,
\* drawn across the other extent from margin to margin + cross.
RECURSIVE GridLoop(_, _, _)
GridLoop(i, extent, cross) ==
    IF RLess(FromInt(i), extent)
    THEN <<[at |-> margin + i * dpi, from |-> FromInt(margin),
            to |-> RAdd(FromInt(margin), cross)]>> \o GridLoop(i + 1, extent, cross)
    ELSE <<>>

\* for (let i = ...; i <= extent; i++): the label i.toString() and its tick
\* at margin + i * dpi, the tick from margin - 5 to margin.
RECURSIVE ScaleLoop(_, _)
ScaleLoop(i, extent) ==
    IF RLeq(FromInt(i), extent)
    THEN <<[label |-> NatToStr(i), at |-> margin + i * dpi,
            from |-> margin - 5, to |-> margin]>> \o ScaleLoop(i + 1, extent)
    ELSE <<>>

\* Mutant of GridLines: the loop started at the border (i = 0).
GridLinesFromBorder(extent, cross) == GridLoop(0, extent, cross)

GridLines(extent, cross) == GridLoop(1, extent, cross)
Scale(extent) == ScaleLoop(0, extent)

\* Mutant of DrawGrid: the logo drawn as part of the synchronous drawing.
DrawGridWithLogo(cv, d, k) ==
    [cv EXCEPT !.width = SurfaceWidth(d),
               !.height = SurfaceHeight(d),
               !.grid = k,
               !.drawn = d,
               !.border = Border(d),
               !.gridLines = [vertical |-> GridLines(d.width, Border(d).h),
                              horizontal |-> GridLines(d.height, Border(d).w)],
               !.scales = [top |-> Scale(d.width), left |-> Scale(d.height)],
               !.labels = [height |-> ToFixed2(d.height) \o InchMark,
                           width |-> ToFixed2(d.width) \o InchMark],
               !.overlays = {[render |-> k, kind |-> "load"]}]

\* The synchronous part of generateTemplate, as render number k: resizing
\* resets the canvas, then background, border, grid, rulers and the two
\* dimension labels are drawn.
DrawGrid(cv, d, k) ==
    [cv EXCEPT !.width = SurfaceWidth(d),
               !.height = SurfaceHeight(d),
               !.grid = k,
               !.drawn = d,
               !.border = Border(d),
               !.gridLines = [vertical |-> GridLines(d.width, Border(d).h),
                              horizontal |-> GridLines(d.height, Border(d).w)],
               !.scales = [top |-> Scale(d.width), left |-> Scale(d.height)],
               !.labels = [height |-> ToFixed2(d.height) \o InchMark,
                           width |-> ToFixed2(d.width) \o InchMark],
               !.overlays = {}]

\* generateTemplate's guard before it asks for the context.
RenderGuard(cv, d) == cv # Null /\ Positive(d)

\* generateTemplate(); gotCtx is whether canvas.getContext('2d') returned a
\* context.
generateTemplate(gotCtx) ==
    IF ~RenderGuard(canvas, dimensions)
    THEN UNCHANGED <<canvas, renderCount, pendingLogos, ctxOk>>
    ELSE IF ~gotCtx
    THEN /\ ctxOk' = FALSE
         /\ UNCHANGED <<canvas, renderCount, pendingLogos>>
    ELSE /\ ctxOk' = TRUE
         /\ renderCount' = renderCount + 1
         /\ canvas' = DrawGrid(canvas, dimensions, renderCount + 1)
         /\ pendingLogos' = pendingLogos \cup
                {[render |-> renderCount + 1, canvas |-> canvas.id]}

\* useEffect(..., [dimensions])
RenderEffect(gotCtx) ==
    /\ dimsDirty
    /\ ~inputsDirty
    /\ IF Positive(dimensions)
       THEN generateTemplate(gotCtx)
       ELSE /\ gotCtx      \* no context is asked for: one step, not two
            /\ UNCHANGED <<canvas, renderCount, pendingLogos, ctxOk>>
    /\ dimsDirty' = FALSE
    /\ UNCHANGED <<dimensions, inputVars, canvasCount, completions, inputsDirty,
                   lastEdit, output, events>>

(***************************************************************************)
(* Branding Overlay: logo.onload / logo.onerror of the render that started *)
(* the load.  The callback draws through the context it closed over, that  *)
(* is on the canvas element of its render, whatever is on it by then.      *)
(***************************************************************************)
\* Mutant of OverlayLands: the completion compares its render with the one
\* on the canvas and is dropped when a newer render has replaced it.
OverlayLandsIfCurrent(l, cv) == cv # Null /\ cv.id = l.canvas /\ cv.grid = l.render

\* Whether the completion of logo l draws on canvas cv.
OverlayLands(l, cv) == cv # Null /\ cv.id = l.canvas

ApplyOverlay(cv, l, kind) ==
    [cv EXCEPT !.overlays = @ \cup {[render |-> l.render, kind |-> kind]}]

LogoComplete(l, kind) ==
    /\ l \in pendingLogos
    /\ pendingLogos' = pendingLogos \ {l}
    /\ completions' = completions + 1
    /\ canvas' = IF OverlayLands(l, canvas) THEN ApplyOverlay(canvas, l, kind)
                 ELSE canvas
    /\ UNCHANGED <<dimensions, inputVars, canvasCount, ctxOk, renderCount,
                   inputsDirty, dimsDirty, lastEdit, output, events>>

(***************************************************************************)
(* Export Adapters                                                         *)
(*                                                                         *)
(* The handlers are taken as callable whenever React is idle, which        *)
(* includes every click on their buttons (rendered when ButtonsVisible),   *)
(* so that what they do rests on their own guards.                         *)
(***************************************************************************)
Aborted(action) == [action |-> action, produced |-> FALSE]

Export(result) ==
    /\ Idle
    /\ events < MaxEvents
    /\ events' = events + 1
    /\ output' = result
    /\ UNCHANGED <<dimensions, inputVars, renderVars, inputsDirty, dimsDirty, lastEdit>>

FilePrefix == <<"s", "h", "a", "d", "o", "w", "b", "o", "a", "r", "d", "-",
                "t", "e", "m", "p", "l", "a", "t", "e", "-">>
FileSuffix == <<".", "p", "n", "g">>

\* Mutant of DownloadName: the two-decimal display strings in the name.
DownloadNameFixed(d) ==
    FilePrefix \o ToFixed2(d.width) \o <<"x">> \o ToFixed2(d.height) \o FileSuffix

\* `shadowboard-template-${dimensions.width}x${dimensions.height}.png`
DownloadName(d) ==
    FilePrefix \o NumberToString(d.width) \o <<"x">> \o NumberToString(d.height)
    \o FileSuffix

downloadTemplate ==
    Export(IF canvas = Null THEN Aborted("download")
           ELSE [action |-> "download", produced |-> TRUE, dims |-> dimensions,
                 filename |-> DownloadName(dimensions),
                 image |-> canvas])

\* What the handler does with the window it opened, in order.
WindowCalls == <<"write", "close", "print">>

\* printTemplate(); opened is whether window.open returned a window.
printTemplate(opened) ==
    Export(IF canvas = Null \/ ~opened THEN Aborted("print")
           ELSE [action |-> "print", produced |-> TRUE, dims |-> dimensions,
                 document |-> <<[type |-> "image", image |-> canvas]>>,
                 calls |-> WindowCalls])

(***************************************************************************)
(* Page Tiler                                                              *)
(***************************************************************************)
pageWidth == Rat(17, 2)
pageHeight == Rat(11, 1)
pageMargin == Rat(1, 2)
printableWidth == RAdd(pageWidth, RMul(pageMargin, FromInt(-2)))
printableHeight == RAdd(pageHeight, RMul(pageMargin, FromInt(-2)))
templateMargin == 1

PagesX(d) == RCeil(RDiv(RAdd(d.width, FromInt(templateMargin * 2)), printableWidth))
PagesY(d) == RCeil(RDiv(RAdd(d.height, FromInt(templateMargin * 2)), printableHeight))

\* Mutant of PageNum: the tiles numbered column by column.
PageNumColumnMajor(row, col, pagesX) == (col * pagesX) + row + 1

PageNum(row, col, pagesX) == (row * pagesX) + col + 1

\* for (row ...) for (col ...): the <<row, col>> pairs in loop order.
RECURSIVE TileLoop(_, _, _, _)
TileLoop(row, col, pagesX, pagesY) ==
    IF row >= pagesY THEN <<>>
    ELSE IF col >= pagesX THEN TileLoop(row + 1, 0, pagesX, pagesY)
    ELSE <<(<<row, col>>)>> \o TileLoop(row, col + 1, pagesX, pagesY)

\* One cell of the page layout grid of the assembly guide.
GridCell(row, col, pagesX) ==
    [page |-> PageNum(row, col, pagesX), row |-> row + 1, col |-> col + 1]

\* The assembly guide block, with the layout grid's cells.
AssemblyGuide(d, pagesX, pagesY) ==
    LET tiles == TileLoop(0, 0, pagesX, pagesY)
    IN  [type |-> "guide",
         size |-> <<NumberToString(d.width), NumberToString(d.height)>>,
         pagesX |-> pagesX, pagesY |-> pagesY, total |-> pagesX * pagesY,
         cells |-> [i \in 1..Len(tiles) |-> GridCell(tiles[i][1], tiles[i][2], pagesX)]]

\* Mutant of Crop: the source offset stepped by the full page (8.5 x 11 in)
\* instead of the printable area.
CropByPage(row, col) ==
    [sx |-> RMul(RMul(FromInt(col), pageWidth), FromInt(dpi)),
     sy |-> RMul(RMul(FromInt(row), pageHeight), FromInt(dpi)),
     sw |-> RMul(printableWidth, FromInt(dpi)),
     sh |-> RMul(printableHeight, FromInt(dpi))]

\* The rectangle of the main canvas drawn on the page canvas of (row, col).
Crop(row, col) ==
    [sx |-> RMul(RMul(FromInt(col), printableWidth), FromInt(dpi)),
     sy |-> RMul(RMul(FromInt(row), printableHeight), FromInt(dpi)),
     sw |-> RMul(printableWidth, FromInt(dpi)),
     sh |-> RMul(printableHeight, FromInt(dpi))]

PageBlock(row, col, pagesX, pagesY) ==
    [type |-> "page", page |-> PageNum(row, col, pagesX), of |-> pagesX * pagesY,
     row |-> row + 1, col |-> col + 1, crop |-> Crop(row, col)]

\* The page blocks; noCtx holds the tiles whose page canvas gave no context
\* (`if (!pageCtx) continue`).
PageBlocks(pagesX, pagesY, noCtx) ==
    LET HasCtx(t) == t \notin noCtx
        tiles == SelectSeq(TileLoop(0, 0, pagesX, pagesY), HasCtx)
    IN  [i \in 1..Len(tiles) |-> PageBlock(tiles[i][1], tiles[i][2], pagesX, pagesY)]

\* Mutant of TiledDocument: the assembly guide appended after the pages.
TiledDocumentGuideLast(d, pagesX, pagesY, noCtx) ==
    PageBlocks(pagesX, pagesY, noCtx) \o <<AssemblyGuide(d, pagesX, pagesY)>>

\* htmlContent, block by block.
TiledDocument(d, pagesX, pagesY, noCtx) ==
    <<AssemblyGuide(d, pagesX, pagesY)>> \o PageBlocks(pagesX, pagesY, noCtx)

TileSet(pagesX, pagesY) == (0..(pagesY - 1)) \X (0..(pagesX - 1))

\* The page count the UI shows next to the tiling warning, on the tiled
\* print button and in the tiling information box.
needsTiling(d) == RLess(Rat(65, 10), d.width) \/ RLess(Rat(85, 10), d.height)
tiledPages(d) ==
    IF needsTiling(d)
    THEN RCeil(RDiv(RAdd(d.width, FromInt(2)), Rat(75, 10)))
            * RCeil(RDiv(RAdd(d.height, FromInt(2)), Rat(95, 10)))
    ELSE 1

\* generateTiledTemplate(); opened is whether window.open returned a window,
\* noCtx the tiles whose pageCanvas.getContext('2d') returned null.
generateTiledTemplate(opened, noCtx) ==
    Export(IF canvas = Null \/ ~Positive(dimensions) \/ ~opened THEN Aborted("tiled")
           ELSE [action |-> "tiled", produced |-> TRUE, dims |-> dimensions,
                 pagesX |-> PagesX(dimensions), pagesY |-> PagesY(dimensions),
                 noCtx |-> noCtx,
                 document |-> TiledDocument(dimensions, PagesX(dimensions),
                                            PagesY(dimensions), noCtx),
                 image |-> canvas,
                 calls |-> WindowCalls])

TiledPrint ==
    IF canvas = Null \/ ~Positive(dimensions)
    THEN generateTiledTemplate(TRUE, {})
    ELSE \/ generateTiledTemplate(FALSE, {})
         \/ \E noCtx \in SUBSET TileSet(PagesX(dimensions), PagesY(dimensions)) :
               /\ Cardinality(noCtx) <= MaxFailedTiles
               /\ generateTiledTemplate(TRUE, noCtx)

(***************************************************************************)
(* Specification                                                           *)
(***************************************************************************)
Next ==
    \/ \E m \in InputModes : SetInputMode(m)
    \/ \E v \in DecimalWidths : SetDecimalWidth(v)
    \/ \E v \in DecimalHeights : SetDecimalHeight(v)
    \/ \E v \in MetricWidths : SetMetricWidth(v)
    \/ \E v \in MetricHeights : SetMetricHeight(v)
    \/ \E part \in {"whole", "numerator", "denominator"} :
          \E v \in PartValues(part) : SetWidthInput(part, v)
    \/ \E part \in {"whole", "numerator", "denominator"} :
          \E v \in PartValues(part) : SetHeightInput(part, v)
    \/ UpdateDimensionsEffect
    \/ \E gotCtx \in BOOLEAN : RenderEffect(gotCtx)
    \/ \E l \in pendingLogos : \E kind \in {"load", "error"} : LogoComplete(l, kind)
    \/ downloadTemplate
    \/ \E opened \in BOOLEAN : printTemplate(opened)
    \/ TiledPrint

Spec == Init /\ [][Next]_vars

(***************************************************************************)
(* The tiler on a range of dimensions: the state after the user typed a    *)
(* width and a height (quarter inches up to TilerMaxQuarters) in decimal   *)
(* mode and the grid was rendered; one export may follow.                  *)
(***************************************************************************)
TilerMaxQuarters == 64

TilerInit ==
    \E qw, qh \in 1..TilerMaxQuarters :
        LET dW == NumberToString(Rat(qw, 4))
            dH == NumberToString(Rat(qh, 4))
            frac == [whole |-> Empty, numerator |-> Empty, denominator |-> <<"1", "6">>]
            d == updateDimensions("decimal", frac, frac, dW, dH, Empty, Empty)
        IN  /\ inputMode = "decimal"
            /\ widthInput = frac
            /\ heightInput = frac
            /\ decimalWidth = dW
            /\ decimalHeight = dH
            /\ metricWidth = Empty
            /\ metricHeight = Empty
            /\ dimensions = d
            /\ canvas = DrawGrid(NewCanvas(1), d, 1)
            /\ canvasCount = 1
            /\ inputsDirty = FALSE
            /\ dimsDirty = FALSE
            /\ lastEdit = "decimalHeight"
            /\ ctxOk = TRUE
            /\ renderCount = 1
            /\ pendingLogos = {[render |-> 1, canvas |-> 1]}
            /\ completions = 0
            /\ output = [action |-> "none", produced |-> FALSE]
            /\ events = MaxEvents - 1

TilerNext ==
    \/ TiledPrint
    \/ \E l \in pendingLogos : \E kind \in {"load", "error"} : LogoComplete(l, kind)

SpecTiler == TilerInit /\ [][TilerNext]_vars

(***************************************************************************)
(* The renderer on a range of dimensions: the state right after the user   *)
(* typed a width and a height (quarter inches up to TilerMaxQuarters) in   *)
(* decimal mode; the input effect, the render and its logo follow.         *)
(***************************************************************************)
RenderInit ==
    \E qw, qh \in 1..TilerMaxQuarters :
        LET frac == [whole |-> Empty, numerator |-> Empty, denominator |-> <<"1", "6">>]
        IN  /\ inputMode = "decimal"
            /\ widthInput = frac
            /\ heightInput = frac
            /\ decimalWidth = NumberToString(Rat(qw, 4))
            /\ decimalHeight = NumberToString(Rat(qh, 4))
            /\ metricWidth = Empty
            /\ metricHeight = Empty
            /\ dimensions = [width |-> Zero, height |-> Zero]
            /\ canvas = Null
            /\ canvasCount = 0
            /\ inputsDirty = TRUE
            /\ dimsDirty = FALSE
            /\ lastEdit = "decimalHeight"
            /\ ctxOk = TRUE
            /\ renderCount = 0
            /\ pendingLogos = {}
            /\ completions = 0
            /\ output = [action |-> "none", produced |-> FALSE]
            /\ events = MaxEvents

RenderNext ==
    \/ UpdateDimensionsEffect
    \/ \E gotCtx \in BOOLEAN : RenderEffect(gotCtx)
    \/ \E l \in pendingLogos : \E kind \in {"load", "error"} : LogoComplete(l, kind)

SpecRender == RenderInit /\ [][RenderNext]_vars

(***************************************************************************)
(* convertFractionToDecimal on a range of strings: the state right after   *)
(* setWidthInput stored a FractionalInput in fraction mode, each field     *)
(* drawn from FractionStrings; the input effect then converts it.          *)
(***************************************************************************)
FractionStrings ==
    {Empty, <<"0">>, <<"2">>, <<"3">>, <<"4">>, <<"1", "6">>, <<"a">>,
     <<"-", "1">>, <<"1", ".", "5">>, <<"0", ".", "0">>, <<".">>}

FractionInit ==
    \E wh, nu, de \in FractionStrings :
      \E hIn \in {[whole |-> Empty, numerator |-> Empty, denominator |-> <<"1", "6">>],
                  [whole |-> <<"2">>, numerator |-> <<"3">>, denominator |-> <<"4">>]} :
        /\ inputMode = "fraction"
        /\ widthInput = [whole |-> wh, numerator |-> nu, denominator |-> de]
        /\ heightInput = hIn
        /\ decimalWidth = Empty
        /\ decimalHeight = Empty
        /\ metricWidth = Empty
        /\ metricHeight = Empty
        /\ dimensions = [width |-> Zero, height |-> Zero]
        /\ canvas = Null
        /\ canvasCount = 0
        /\ inputsDirty = TRUE
        /\ dimsDirty = FALSE
        /\ lastEdit = "widthInput"
        /\ ctxOk = TRUE
        /\ renderCount = 0
        /\ pendingLogos = {}
        /\ completions = 0
        /\ output = [action |-> "none", produced |-> FALSE]
        /\ events = MaxEvents

FractionNext == UpdateDimensionsEffect

SpecFraction == FractionInit /\ [][FractionNext]_vars

(***************************************************************************)
(* Claims                                                                  *)
(***************************************************************************)
Dims(w, h) == [width |-> w, height |-> h]
Tiled == output.action = "tiled" /\ output.produced
GuideOf(doc) == CHOOSE i \in 1..Len(doc) : doc[i].type = "guide"
PagesOf(doc) == LET IsPage(b) == b.type = "page" IN SelectSeq(doc, IsPage)

\* n is the least integer with n * unit >= extent, i.e. ceil(extent / unit).
IsCeilOf(n, extent, unit) ==
    /\ RLeq(extent, RMul(FromInt(n), unit))
    /\ RLess(RMul(FromInt(n - 1), unit), extent)

\* C1: a tiled print of dimensions (w, h) uses pagesX = ceil((w + 2) / 7.5)
\* by pagesY = ceil((h + 2) / 10) pages, and the layout grid numbers the tiles
\* 1..pagesX*pagesY, each once, in row-major order: number p is the tile of row
\* (p - 1) div pagesX and column (p - 1) mod pagesX; every page block carries
\* the number of its row and column.  (10, 10) gives 2 x 2 = 4 pages.
C1_TilingNumbers ==
    Tiled =>
        LET px == output.pagesX
            py == output.pagesY
            cells == output.document[GuideOf(output.document)].cells
            pages == PagesOf(output.document)
        IN  /\ IsCeilOf(px, RAdd(output.dims.width, FromInt(2)), Rat(75, 10))
            /\ IsCeilOf(py, RAdd(output.dims.height, FromInt(2)), Rat(10, 1))
            /\ Len(cells) = px * py
            /\ \A p \in 1..Len(cells) :
                  /\ cells[p].page = p
                  /\ cells[p].row = ((p - 1) \div px) + 1
                  /\ cells[p].col = ((p - 1) % px) + 1
            /\ \A i \in 1..Len(pages) :
                  pages[i].page = (pages[i].row - 1) * px + pages[i].col
            /\ (output.dims = Dims(FromInt(10), FromInt(10)))
                  => (px = 2 /\ py = 2 /\ Len(cells) = 4)

\* C1 witness: a tiled print of (10, 10) with its 4 pages.
C1_Witness ==
    /\ Tiled
    /\ output.dims = Dims(FromInt(10), FromInt(10))
    /\ output.pagesX * output.pagesY = 4
    /\ Len(PagesOf(output.document)) = 4

\* The value the claims give to one raw string: its number, 0 if unparsable.
NumberOr0(str) == IF IsNaN(ParseFloat(str)) THEN Zero ELSE ParseFloat(str)
\* whole + numerator / denominator of one axis in fraction mode.
FractionValue(input) ==
    LET den == NumberOr0(input.denominator)
    IN  RAdd(NumberOr0(input.whole),
             RDiv(NumberOr0(input.numerator), IF den = Zero THEN One ELSE den))
Inch(mm) == RDiv(mm, Rat(254, 10))

\* C2: once the updateDimensions effect has run, the stored dimensions are the
\* normal form of the active mode's raw fields: the parsed decimal fields (0
\* if unparsable) in decimal mode, whole + numerator/denominator per axis in
\* fraction mode, millimetres (0 if unparsable) / 25.4 in metric mode; metric
\* 254 x 127 gives 10 x 5 inches.
C2_Normalized ==
    ~inputsDirty =>
        /\ inputMode = "decimal" =>
              dimensions = Dims(NumberOr0(decimalWidth), NumberOr0(decimalHeight))
        /\ inputMode = "fraction" =>
              dimensions = Dims(FractionValue(widthInput), FractionValue(heightInput))
        /\ inputMode = "metric" =>
              dimensions = Dims(Inch(NumberOr0(metricWidth)), Inch(NumberOr0(metricHeight)))
        /\ (inputMode = "metric" /\ metricWidth = Str254 /\ metricHeight = Str127)
              => dimensions = Dims(FromInt(10), FromInt(5))

\* C2 witness: metric 254 x 127 entered and the effect run.
C2_Witness ==
    /\ ~inputsDirty
    /\ inputMode = "metric"
    /\ metricWidth = Str254
    /\ metricHeight = Str127
    /\ dimensions = Dims(FromInt(10), FromInt(5))
    /\ lastEdit # "inputMode"

\* The state names that the raw fields of a mode are kept under.
FieldsOf(mode) ==
    CASE mode = "decimal" -> {"decimalWidth", "decimalHeight"}
      [] mode = "fraction" -> {"widthInput", "heightInput"}
      [] mode = "metric" -> {"metricWidth", "metricHeight"}
InactiveFields(mode) == UNION {FieldsOf(m) : m \in InputModes \ {mode}}

InitialFraction == [whole |-> Empty, numerator |-> Empty, denominator |-> <<"1", "6">>]

\* The dimensions computed from the active mode's raw fields alone, every
\* field of another mode being put back to its initial value.
FromActiveFieldsOnly ==
    updateDimensions(inputMode,
        IF inputMode = "fraction" THEN widthInput ELSE InitialFraction,
        IF inputMode = "fraction" THEN heightInput ELSE InitialFraction,
        IF inputMode = "decimal" THEN decimalWidth ELSE Empty,
        IF inputMode = "decimal" THEN decimalHeight ELSE Empty,
        IF inputMode = "metric" THEN metricWidth ELSE Empty,
        IF inputMode = "metric" THEN metricHeight ELSE Empty)

\* C9: the stored dimensions are a function of the active input mode and of
\* that mode's raw fields only, whatever the history of edits and mode
\* switches (once the effect has run they are what the active fields alone
\* give), and the effect run after an edit of a field of an inactive mode
\* leaves the dimension values unchanged.
C9_NoHiddenState ==
    /\ [](~inputsDirty => dimensions = FromActiveFieldsOnly)
    /\ [][(inputsDirty /\ ~inputsDirty' /\ lastEdit \in InactiveFields(inputMode))
            => dimensions' = dimensions]_vars

\* C9 witness: a metric field edited in decimal mode, (5, 3) unchanged.
C9_Witness ==
    /\ ~inputsDirty
    /\ inputMode = "decimal"
    /\ lastEdit = "metricWidth"
    /\ metricWidth = Str254
    /\ dimensions = Dims(FromInt(5), FromInt(3))

C4_Original ==
    (Idle /\ Positive(dimensions) /\ ctxOk) =>
        /\ canvas # Null
        /\ FromInt(canvas.width) = RAdd(RMul(dimensions.width, FromInt(72)), FromInt(144))
        /\ FromInt(canvas.height) = RAdd(RMul(dimensions.height, FromInt(72)), FromInt(144))

\* C4, amended: whenever the input effects have settled with width > 0 and
\* height > 0 and the latest render got its 2d context, the surface holds the
\* grid of the current dimensions and has size floor(width*72) + 144 by
\* floor(height*72) + 144 pixels; (5, 3) gives (504, 360).
C4_SurfaceSize ==
    (Idle /\ Positive(dimensions) /\ ctxOk) =>
        /\ canvas # Null
        /\ canvas.grid = renderCount
        /\ canvas.drawn = dimensions
        /\ canvas.width = RFloor(RMul(dimensions.width, FromInt(72))) + 144
        /\ canvas.height = RFloor(RMul(dimensions.height, FromInt(72))) + 144
        /\ dimensions = Dims(FromInt(5), FromInt(3))
              => (canvas.width = 504 /\ canvas.height = 360)

\* C4 witness: (5, 3) rendered on a 504 x 360 surface, as the second render.
C4_Witness ==
    /\ Idle
    /\ ctxOk
    /\ dimensions = Dims(FromInt(5), FromInt(3))
    /\ canvas # Null
    /\ canvas.width = 504
    /\ canvas.height = 360
    /\ renderCount = 2

\* C5 as stated: one page block per tile (pagesX*pagesY of them), the
\* assembly guide after all the page blocks, print after the write.
C5_Original ==
    Tiled =>
        LET doc == output.document
        IN  /\ Len(PagesOf(doc)) = output.pagesX * output.pagesY
            /\ GuideOf(doc) = Len(doc)
            /\ output.calls = <<"write", "close", "print">>

\* C5, amended: in the document of a tiled print the assembly guide is the
\* first block, before all the page blocks; the page blocks follow in
\* row-major order, one for each tile whose page canvas gave a context (all
\* pagesX*pagesY when none failed); the document is written once and the
\* print flow is invoked after the write.
C5_TiledDocument ==
    Tiled =>
        LET doc == output.document
            pages == PagesOf(doc)
            total == output.pagesX * output.pagesY
        IN  /\ doc[1].type = "guide"
            /\ \A i \in 2..Len(doc) : doc[i].type = "page"
            /\ Len(pages) = total - Cardinality(output.noCtx)
            /\ \A i \in 1..Len(pages) :
                  /\ pages[i].page \in 1..total
                  /\ <<pages[i].row - 1, pages[i].col - 1>> \notin output.noCtx
                  /\ i > 1 => pages[i - 1].page < pages[i].page
            /\ output.noCtx = {} => \A i \in 1..total : pages[i].page = i
            /\ \E w, p \in 1..Len(output.calls) :
                  /\ output.calls[w] = "write"
                  /\ output.calls[p] = "print"
                  /\ w < p
                  /\ p = Len(output.calls)
                  /\ \A j \in 1..Len(output.calls) :
                        output.calls[j] \in {"write", "print"} => j \in {w, p}

\* C5 witness: a complete 2 x 2 tiled document, guide first.
C5_Witness ==
    /\ Tiled
    /\ output.pagesX * output.pagesY = 4
    /\ output.noCtx = {}
    /\ Len(output.document) = 5
    /\ output.document[1].type = "guide"
    /\ output.document[5].page = 4

\* C6: when a rendering context or a print window cannot be obtained, the
\* action is aborted as a whole: a tiled print whose page canvas gave no
\* context produces no document, so every tiled document that is written
\* holds all of its pagesX*pagesY page blocks.
C6_AbortedAsAWhole ==
    Tiled =>
        /\ output.noCtx = {}
        /\ Len(PagesOf(output.document)) = output.pagesX * output.pagesY

\* C7: a logo load leaves the in-flight set only by completing (it is never
\* cancelled), and its completion draws the overlay on the canvas of its
\* render whenever that element is still mounted, whichever render's grid
\* is on it by then: the overlay of render k can land on the surface of
\* render k+1.
C7_LateOverlay ==
    [][\A l \in pendingLogos :
          l \notin pendingLogos' =>
              /\ completions' = completions + 1
              /\ (canvas # Null /\ canvas.id = l.canvas) =>
                    /\ canvas' # Null
                    /\ canvas'.grid = canvas.grid
                    /\ \E kind \in {"load", "error"} :
                          [render |-> l.render, kind |-> kind] \in canvas'.overlays]_vars

\* C7 witness: the overlay of render k on the surface of render k+1.
C7_Witness ==
    /\ canvas # Null
    /\ \E o \in canvas.overlays : o.render + 1 = canvas.grid
    /\ renderCount = canvas.grid

OverlaysOf(k, cv) == {o \in cv.overlays : o.render = k}

\* C8: a render draws its grid at once and leaves its logo loading: right
\* after it the surface holds the grid of that render and no overlay; while
\* the logo of a render is in flight its overlay is on no surface, and an
\* overlay is only ever on a surface whose grid is of the same or a later
\* render; an export reads the surface as it is when invoked, so one made
\* while the logo is in flight holds the grid without that overlay.
C8_GridBeforeOverlay ==
    /\ [](\A l \in pendingLogos :
            /\ l.render <= renderCount
            /\ canvas # Null => OverlaysOf(l.render, canvas) = {})
    /\ [](canvas # Null => \A o \in canvas.overlays : o.render <= canvas.grid)
    /\ [][renderCount' # renderCount =>
            /\ canvas'.grid = renderCount'
            /\ canvas'.overlays = {}
            /\ [render |-> renderCount', canvas |-> canvas'.id] \in pendingLogos']_vars
    /\ [][(output' # output /\ output'.produced) =>
            /\ (IF output'.action = "print" THEN output'.document[1].image
                ELSE output'.image) = canvas
            /\ \A l \in pendingLogos : OverlaysOf(l.render, canvas) = {}]_vars

\* C8 witness: a download made between a render and the completion of its
\* logo.
C8_Witness ==
    /\ output.action = "download"
    /\ output.produced
    /\ output.image.grid = renderCount
    /\ output.image.overlays = {}
    /\ \E l \in pendingLogos : l.render = output.image.grid
    /\ canvas = output.image

\* The place of the "x" that separates the two numbers of a file name.
SplitAt(name) == CHOOSE i \in 1..Len(name) : name[i] = "x"
IsNumeral(str) ==
    /\ str # <<>>
    /\ \A i \in 1..Len(str) : IsDigit(str[i]) \/ str[i] = "." \/ (i = 1 /\ str[i] = "-")

\* C10: the name suggested by a download is 'shadowboard-template-', the
\* width, 'x', the height and '.png', where the two numerals read back as
\* exactly the dimensions (the raw values, not their two-decimal display
\* strings); for (5, 3) it is shadowboard-template-5x3.png.
C10_DownloadName ==
    (output.action = "download" /\ output.produced) =>
        LET name == output.filename
            n == Len(name)
            mid == SubSeq(name, Len(FilePrefix) + 1, n - 4)
            x == SplitAt(mid)
            w == SubSeq(mid, 1, x - 1)
            h == SubSeq(mid, x + 1, Len(mid))
        IN  /\ SubSeq(name, 1, Len(FilePrefix)) = FilePrefix
            /\ SubSeq(name, n - 3, n) = <<".", "p", "n", "g">>
            /\ IsNumeral(w) /\ IsNumeral(h)
            /\ ParseFloat(w) = output.dims.width
            /\ ParseFloat(h) = output.dims.height
            /\ output.dims = Dims(FromInt(5), FromInt(3)) =>
                  name = <<"s", "h", "a", "d", "o", "w", "b", "o", "a", "r", "d", "-",
                           "t", "e", "m", "p", "l", "a", "t", "e", "-",
                           "5", "x", "3", ".", "p", "n", "g">>

\* C10 witness: a download of (5, 3).
C10_Witness ==
    /\ output.action = "download"
    /\ output.produced
    /\ output.dims = Dims(FromInt(5), FromInt(3))
    /\ Len(output.filename) = 28

\* Whether a string holds no number: parseFloat finds no digit in it.
Unparsable(str) == IsNaN(ParseFloat(str))

\* C11: convertFractionToDecimal never divides by zero: whatever the whole,
\* numerator and denominator strings (empty, unparsable, a denominator of
\* "0"), the value stored is a finite number, namely whole + numerator / den
\* where an unparsable whole or numerator counts as 0 and den is the
\* denominator, or 1 when that is unparsable or zero; "2", "3", "4" give 2.75.
C11_NoDivisionByZero ==
    (~inputsDirty /\ inputMode = "fraction") =>
        LET w == IF Unparsable(widthInput.whole) THEN Zero
                 ELSE ParseFloat(widthInput.whole)
            n == IF Unparsable(widthInput.numerator) THEN Zero
                 ELSE ParseFloat(widthInput.numerator)
            den == IF Unparsable(widthInput.denominator)
                      \/ ParseFloat(widthInput.denominator) = Zero
                   THEN One ELSE ParseFloat(widthInput.denominator)
        IN  /\ IsFinite(dimensions.width)
            /\ IsFinite(dimensions.height)
            /\ den.n # 0
            /\ RMul(RAdd(dimensions.width, Rat(-w.n, w.d)), den) = n
            /\ (widthInput = [whole |-> <<"2">>, numerator |-> <<"3">>,
                              denominator |-> <<"4">>])
                  => dimensions.width = Rat(275, 100)

\* C11 witness: a denominator of "0" converted: 2 + 3/1.
C11_Witness ==
    /\ ~inputsDirty
    /\ inputMode = "fraction"
    /\ widthInput = [whole |-> <<"2">>, numerator |-> <<"3">>, denominator |-> <<"0">>]
    /\ dimensions.width = FromInt(5)

\* The pixel offsets margin + i * dpi of the whole inches i from lo up to
\* extent, extent itself left out when strict.
InchOffsets(lo, extent, strict) ==
    {margin + i * dpi : i \in {j \in lo..RFloor(extent) :
                                  strict => RLess(FromInt(j), extent)}}

Places(seq) == {seq[k].at : k \in 1..Len(seq)}

\* Lines of one direction: one per whole inch strictly inside extent, each
\* strictly between the two border sides it runs along and spanning exactly
\* the content rectangle across.
LinesInside(seq, extent, cross) ==
    /\ Cardinality(Places(seq)) = Len(seq)
    /\ Places(seq) = InchOffsets(1, extent, TRUE)
    /\ \A k \in 1..Len(seq) :
          /\ margin < seq[k].at
          /\ RLess(FromInt(seq[k].at), RAdd(FromInt(margin), RMul(extent, FromInt(dpi))))
          /\ seq[k].at <= margin + RFloor(extent) * dpi
          /\ seq[k].from = FromInt(margin)
          /\ seq[k].to = RAdd(FromInt(margin), RMul(cross, FromInt(dpi)))

\* Ticks of one ruler: one per whole inch from 0 to extent, labelled with that
\* inch, none past the content extent.
TicksWithin(seq, extent) ==
    /\ Cardinality(Places(seq)) = Len(seq)
    /\ Places(seq) = InchOffsets(0, extent, FALSE)
    /\ \A k \in 1..Len(seq) :
          /\ margin <= seq[k].at
          /\ RLeq(FromInt(seq[k].at), RAdd(FromInt(margin), RMul(extent, FromInt(dpi))))
          /\ seq[k].at <= margin + RFloor(extent) * dpi
          /\ seq[k].label = NatToStr((seq[k].at - margin) \div dpi)
          /\ (seq[k].at - margin) % dpi = 0

\* C12: on every rendered surface the interior grid lines are exactly at the
\* whole inches i with 1 <= i < width (vertical) and 1 <= i < height
\* (horizontal), none on the border or outside the content rectangle; the
\* ruler ticks and labels are exactly at the whole inches 0 <= i <= width (top)
\* and 0 <= i <= height (left), within the content extent; nothing is drawn
\* past floor(dimension).
C12_GridAndRulers ==
    (canvas # Null /\ canvas.drawn # Null) =>
        LET d == canvas.drawn
        IN  /\ canvas.border = [x |-> margin, y |-> margin,
                                w |-> RMul(d.width, FromInt(dpi)),
                                h |-> RMul(d.height, FromInt(dpi))]
            /\ LinesInside(canvas.gridLines.vertical, d.width, d.height)
            /\ LinesInside(canvas.gridLines.horizontal, d.height, d.width)
            /\ TicksWithin(canvas.scales.top, d.width)
            /\ TicksWithin(canvas.scales.left, d.height)

\* C12 witness: 2.75 x 3 rendered: vertical lines at inches 1 and 2 (none at
\* 2.75), horizontal lines at 1 and 2 (none on the border at 3), top ticks
\* 0..2 and left ticks 0..3.
C12_Witness ==
    /\ canvas # Null
    /\ canvas.drawn = [width |-> Rat(11, 4), height |-> FromInt(3)]
    /\ Places(canvas.gridLines.vertical) = {144, 216}
    /\ Places(canvas.gridLines.horizontal) = {144, 216}
    /\ Len(canvas.scales.top) = 3
    /\ Len(canvas.scales.left) = 4

\* Two source rectangles share no area.
Disjoint(a, b) ==
    \/ RLeq(RAdd(a.sx, a.sw), b.sx)
    \/ RLeq(RAdd(b.sx, b.sw), a.sx)
    \/ RLeq(RAdd(a.sy, a.sh), b.sy)
    \/ RLeq(RAdd(b.sy, b.sh), a.sy)

\* The rectangle [0, w) x [0, h) lies in the union of the rectangles crops:
\* cut it at every crop edge and test the middle of each elementary cell.
Covers(crops, w, h) ==
    LET Within(cuts, ext) == {x \in cuts : RLeq(Zero, x) /\ RLeq(x, ext)}
        Cells(cuts) ==
            {p \in cuts \X cuts :
                /\ RLess(p[1], p[2])
                /\ ~\E m \in cuts : RLess(p[1], m) /\ RLess(m, p[2])}
        Mids(cuts) == {RDiv(RAdd(p[1], p[2]), FromInt(2)) : p \in Cells(cuts)}
    IN  \A xs \in {Mids(Within({Zero, w} \cup {c.sx : c \in crops}
                                \cup {RAdd(c.sx, c.sw) : c \in crops}, w))},
           ys \in {Mids(Within({Zero, h} \cup {c.sy : c \in crops}
                                \cup {RAdd(c.sy, c.sh) : c \in crops}, h))} :
          \A x \in xs, y \in ys :
             \E c \in crops : /\ RLeq(c.sx, x) /\ RLess(x, RAdd(c.sx, c.sw))
                              /\ RLeq(c.sy, y) /\ RLess(y, RAdd(c.sy, c.sh))

\* C13: the tile of (row, col) is the crop at source offset (col*540, row*720)
\* of extent 540 x 720; for every dimensions pair the crops of the tiles are
\* pairwise non-overlapping and together cover the whole surface, (w+2)*72 by
\* (h+2)*72, and only a crop of the last column (last row) reaches past its
\* right (bottom) edge.  The page blocks written carry these crops, all of
\* them when no page canvas was refused its context.
C13_CropsTileSurface ==
    Tiled =>
        \A tiles \in {TileSet(output.pagesX, output.pagesY)},
           pages \in {PagesOf(output.document)},
           w \in {RMul(RAdd(output.dims.width, FromInt(2)), FromInt(72))},
           h \in {RMul(RAdd(output.dims.height, FromInt(2)), FromInt(72))} :
          \A cropOf \in {[t \in tiles |-> Crop(t[1], t[2])]} :
            \A crops \in {{cropOf[t] : t \in tiles}},
               written \in {{pages[i].crop : i \in 1..Len(pages)}} :
                /\ \A t \in tiles :
                      /\ cropOf[t] = [sx |-> FromInt(t[2] * 540),
                                      sy |-> FromInt(t[1] * 720),
                                      sw |-> FromInt(540), sh |-> FromInt(720)]
                      /\ RLess(w, RAdd(cropOf[t].sx, FromInt(540)))
                            => t[2] = output.pagesX - 1
                      /\ RLess(h, RAdd(cropOf[t].sy, FromInt(720)))
                            => t[1] = output.pagesY - 1
                /\ \A t, u \in tiles : t # u => Disjoint(cropOf[t], cropOf[u])
                /\ Covers(crops, w, h)
                /\ output.image.width <= RFloor(w)
                /\ output.image.height <= RFloor(h)
                /\ \A i \in 1..Len(pages) :
                      pages[i].crop = cropOf[<<pages[i].row - 1, pages[i].col - 1>>]
                /\ written \subseteq crops
                /\ Cardinality(written) = Len(pages)
                /\ output.noCtx = {} => written = crops

\* C13 witness: 8 x 9.5 tiled into 2 x 2 crops, all four written; the crops
\* of the last column and row reach past the 720 x 828 surface.
C13_Witness ==
    /\ Tiled
    /\ output.dims = Dims(FromInt(8), Rat(19, 2))
    /\ output.pagesX = 2 /\ output.pagesY = 2
    /\ output.noCtx = {}
    /\ {PagesOf(output.document)[i].crop : i \in 1..4}
          = {Crop(t[1], t[2]) : t \in TileSet(2, 2)}
    /\ output.image.width = 720 /\ output.image.height = 828

\* C14: for every dimensions pair with width > 0 and height > 0 the page
\* count announced in the UI (tiledPages) equals the number of pages
\* pagesX * pagesY that generateTiledTemplate produces for these dimensions.
C14_AnnouncedPageCount ==
    (Tiled /\ output.dims = dimensions) =>
        tiledPages(dimensions) = output.pagesX * output.pagesY

\* A step of the updateDimensions effect, of the render effect with positive
\* dimensions, of one logo completion.
EffectStep == inputsDirty /\ ~inputsDirty'
RenderStep == dimsDirty /\ ~dimsDirty' /\ Positive(dimensions)
CompletionStep == completions' # completions

\* C15 as stated: every run of the render effect with width > 0 and
\* height > 0 performs one render and starts one logo load.
C15_Original ==
    [][RenderStep => /\ renderCount' = renderCount + 1
                     /\ Cardinality(pendingLogos') = Cardinality(pendingLogos) + 1]_vars

\* C15: every run of the updateDimensions effect stores a fresh dimensions
\* value, that is schedules the render effect, whether or not the numbers
\* changed; the render effect with width > 0 and height > 0 then calls
\* generateTemplate once, which performs one render and starts exactly one
\* logo load when it obtains the 2d context, and nothing when it does not; a
\* logo load completes once, as load or as error.  Hence in every state the
\* overlays applied are at most the renders performed and the logo loads in
\* flight are renders minus completions.
C15_RendersAndLogos ==
    /\ [](/\ Cardinality(pendingLogos) = renderCount - completions
          /\ completions <= renderCount
          /\ \A l \in pendingLogos : l.render \in 1..renderCount
          /\ \A l, k \in pendingLogos : l.render = k.render => l = k
          /\ canvas # Null =>
                /\ Cardinality(canvas.overlays) <= renderCount
                /\ \A o, q \in canvas.overlays : o.render = q.render => o = q
                /\ \A o \in canvas.overlays :
                      /\ o.kind \in {"load", "error"}
                      /\ o.render \in 1..renderCount
                      /\ \A l \in pendingLogos : l.render # o.render)
    /\ [][/\ EffectStep => dimsDirty'
          /\ RenderStep =>
                IF ctxOk'
                THEN /\ renderCount' = renderCount + 1
                     /\ canvas'.grid = renderCount'
                     /\ \E l \in pendingLogos' \ pendingLogos :
                           /\ l.render = renderCount'
                           /\ pendingLogos' = pendingLogos \cup {l}
                ELSE UNCHANGED <<renderCount, pendingLogos, canvas>>
          /\ renderCount' # renderCount => RenderStep
          /\ CompletionStep =>
                /\ completions' = completions + 1
                /\ renderCount' = renderCount
                /\ \E l \in pendingLogos : pendingLogos' = pendingLogos \ {l}
          /\ pendingLogos' # pendingLogos => (RenderStep \/ CompletionStep)]_vars

\* C15 witness: 5 x 3 is on the surface as render 1 with its logo completed,
\* the width was retyped as "5.0", and the effect has stored 5 x 3 again: the
\* render effect is scheduled although the numbers did not change.
C15_Witness ==
    /\ lastEdit = "decimalWidth"
    /\ decimalWidth = Str5Dot0
    /\ ~inputsDirty
    /\ dimsDirty
    /\ dimensions = Dims(FromInt(5), FromInt(3))
    /\ canvas # Null
    /\ canvas.drawn = dimensions
    /\ canvas.grid = 1
    /\ renderCount = 1
    /\ completions = 1
    /\ pendingLogos = {}

====
